---- MODULE Spec2Model ----
(***************************************************************************)
(* The UDP log shipping pipeline of vinted-logger-rs.                      *)
(*                                                                         *)
(* Producers (VintedUdpWriter::write, Logger::on_event) hand encoded       *)
(* payloads to a futures_channel::mpsc channel; one background task        *)
(* (background_task / Builder::connect_udp's bg_task) resolves the         *)
(* destination, binds a UDP socket per resolved address and drains the     *)
(* channel into it (handle_udp_connection).                                *)
(*                                                                         *)
(* The channel is the bounded futures_channel::mpsc channel.  Its          *)
(* documented behaviour is modelled as the crate implements it: a Sender   *)
(* is refused (Full) only when that Sender itself is parked, i.e. when it  *)
(* already has a message over the buffer outstanding; a fresh clone is     *)
(* never parked ("each sender gets a guaranteed slot").                    *)
(*                                                                         *)
(* Beside the pipeline the module holds the encoders in front of it:       *)
(* Logger::on_event with the JSON text it produces, the span frames of     *)
(* SerializableSpan::serialize, VintedJson::format_event with its span    *)
(* context, and the FluentdAppender with its worker thread.  Each has a    *)
(* specification of its own over the shared state.                         *)
(***************************************************************************)
EXTENDS Integers, Sequences, FiniteSets, TLC

(* ------------------------------ bounds -------------------------------- *)

\* Total number of write calls explored.
MaxWrites == 3

\* The `buffer` argument handed to mpsc::channel.  The source passes
\* DEFAULT_BUFFER (512); the model explores the smallest channel, whose
\* only room is the slot each Sender is guaranteed.
BufferSize == 0

\* Producer threads; p1 owns the handle returned by VintedUdpWriter::new.
Producers == {1, 2}

\* Candidate socket addresses a lookup can yield, with their family.
V4 == "10.0.0.1:5005"
V6 == "[fd00::1]:5005"
None == "None"

\* An Option<Bytes>: the empty sequence, or the payload alone.
NoBytes == << >>

Some(b) == << b >>

VARIABLES
    holders,        \* producers that own a live writer handle (a Sender)
    written,        \* written[p]: number of write calls producer p has made
    is_open,        \* the channel's open flag (false once closed)
    message_queue,  \* payloads buffered in the channel, oldest first
    last_write,     \* the latest write call: its buf, try_send's outcome, its return
    pc,             \* position of the background task
    addrs,          \* addresses of the current lookup not yet tried
    addr,           \* the address handle_udp_connection was called with
    udp_socket,     \* local endpoint of the open socket, or None
    bytes,          \* Option: payload handed to sink.send, not yet completed
    handed,         \* completed sink.send calls, in order, with their outcome
    rejected,       \* payloads whose try_send returned an error
    discarded,      \* payloads dropped with the receiver
    next_done,      \* receiver.next() has returned None (end of stream)
    last_lookup,    \* outcomes of the previous and the latest lookup_host
    slept,          \* sleeps completed since the latest lookup_host
    at_failure,     \* payloads buffered at the latest send failure, not yet dequeued
    resolved,       \* the addresses the lookup of the current pass yielded
    ends,           \* how each connection of the current pass ended, in order
    tasks,          \* background tasks spawned and running on this channel
    config,         \* the identity fields given to the Builder
    logger,         \* the Logger that Builder::connect_udp returned
    event,          \* the tracing event handed to Logger::on_event
    object,         \* the JSON object on_event built for it
    raw,            \* the bytes on_event produced
    epc,            \* "event" before on_event has run, "encoded" after
    span,           \* the span handed to SerializableSpan: its name and its
                    \* FormattedFields buffer
    debug_assertions, \* cfg!(debug_assertions) of the build
    frame,          \* what SerializableSpan::serialize produced for it
    spc,            \* "span" before serialize has run; "serialized", "panicked"
    worker,         \* position of the FluentdAppender's worker thread
    channel,        \* LogRecords buffered in the appender's std mpsc channel
    log_record,     \* Option: the LogRecord the worker has received
    appended,       \* number of append calls made
    append_ret,     \* what the latest append call returned
    ctx,            \* the current span and its ancestors, root first (ids)
    fevent,         \* the event handed to VintedJson::format_event
    formatted,      \* what format_event wrote for it
    fpc             \* "event" before format_event has run; "formatted", "panicked"

pvars == << holders, written, is_open, message_queue, last_write, pc, addrs,
            addr, udp_socket, bytes, handed, rejected, discarded, next_done,
            last_lookup, slept, at_failure, resolved, ends, tasks >>

evars == << config, logger, event, object, raw, epc >>

svars == << span, debug_assertions, frame, spc >>

avars == << worker, channel, log_record, appended, append_ret >>

fvars == << ctx, fevent, formatted, fpc >>

vars == << pvars, evars, svars, avars, fvars >>

(* ------------------------------ payloads ------------------------------ *)

\* The k-th buffer producer p writes: k bytes, each p's tag.  Distinct
\* writes have distinct contents, and lengths vary.
Buf(p, k) == [i \in 1..k |-> p]

Producer(b) == b[1]

SeqNo(b) == Len(b)

RECURSIVE SumOver(_, _)
SumOver(f, S) ==
    IF S = {} THEN 0
    ELSE LET x == CHOOSE y \in S : TRUE IN f[x] + SumOver(f, S \ {x})

TotalWritten == SumOver(written, Producers)

(* ------------------------- the mpsc channel --------------------------- *)

\* Sender::clone: a new Sender on the same channel, not parked.
CloneSender == [maybe_parked |-> FALSE]

\* Sender::try_send: the outcome for sender s on a channel with the given
\* open flag.  A parked sender is refused; a closed channel reports
\* Disconnected; otherwise the message is counted and pushed, whatever the
\* number of messages already buffered: the buffer size only decides
\* whether the sending Sender parks itself afterwards, which affects that
\* Sender's later sends alone, and the clone is dropped after this one.
TrySend(s, open) ==
    IF s.maybe_parked THEN "Full"
    ELSE IF ~open THEN "Disconnected"
    ELSE "Ok"

\* A write that hands try_send's error on to its caller.
WriteResultPropagated(r, buf) ==
    IF r = "Ok" THEN [kind |-> "Ok", n |-> Len(buf)]
    ELSE [kind |-> "Err", n |-> 0]

\* io::Write::write discards try_send's result.
WriteResult(r, buf) == [kind |-> "Ok", n |-> Len(buf)]

\* A receiver that pops the newest message.
DequeueNewest(q) == [msg |-> q[Len(q)], rest |-> SubSeq(q, 1, Len(q) - 1)]

\* A receiver that hands out the two oldest messages as one.
DequeueBatch(q) ==
    IF Len(q) >= 2 THEN [msg |-> q[1] \o q[2], rest |-> Tail(Tail(q))]
    ELSE [msg |-> Head(q), rest |-> Tail(q)]

\* A receiver that loses the message behind the one it hands out.
DequeueSkip(q) ==
    [msg |-> Head(q),
     rest |-> IF Len(q) >= 2 THEN Tail(Tail(q)) ELSE Tail(q)]

\* Receiver::next on a non-empty queue pops the oldest message.
Dequeue(q) == [msg |-> Head(q), rest |-> Tail(q)]

(* ------------------------------ producers ----------------------------- *)

\* The pipeline as VintedUdpWriter::new / Builder::connect_udp leave it:
\* an open, empty channel, one handle, the task about to look up.
PipelineInit ==
    /\ holders = {1}
    /\ written = [p \in Producers |-> 0]
    /\ is_open = TRUE
    /\ message_queue = << >>
    /\ last_write = [buf |-> << >>, try_send |-> "None",
                     ret |-> [kind |-> "None", n |-> 0]]
    /\ pc = "lookup"
    /\ addrs = << >>
    /\ addr = None
    /\ udp_socket = None
    /\ bytes = NoBytes
    /\ handed = << >>
    /\ rejected = {}
    /\ discarded = {}
    /\ next_done = FALSE
    /\ last_lookup = << "none", "none" >>
    /\ slept = 0
    /\ at_failure = << >>
    /\ resolved = << >>
    /\ ends = << >>
    /\ tasks = 1

\* A make_writer that builds its writer with VintedUdpWriter::new, which
\* spawns a background task of its own.
TasksAfterNew(n) == n + 1

\* The derived Clone of VintedUdpWriter clones its one field, the Sender:
\* the number of background tasks stays what it was.
TasksAfterClone(n) == n

\* MakeWriter::make_writer: (*self).clone(), a further handle.
MakeWriter(p, q) ==
    /\ p \in holders
    /\ q \notin holders
    /\ holders' = holders \cup {q}
    /\ UNCHANGED << written, is_open, message_queue, last_write, pc, addrs, addr,
                    udp_socket, bytes, handed, rejected, discarded,
                    next_done, last_lookup, slept, at_failure >>
    /\ tasks' = TasksAfterClone(tasks)
    /\ UNCHANGED << resolved, ends >>
    /\ UNCHANGED << evars, svars, avars, fvars >>

\* A close that throws away what the channel still holds.
DropHandleDiscarding(p) ==
    /\ p \in holders
    /\ holders' = holders \ {p}
    /\ is_open' = (is_open /\ holders' # {})
    /\ message_queue' = IF holders' = {} THEN << >> ELSE message_queue
    /\ UNCHANGED << written, last_write, pc, addrs, addr, udp_socket, bytes,
                    handed, rejected, discarded, next_done, last_lookup,
                    slept, at_failure >>
    /\ UNCHANGED << resolved, ends, tasks >>
    /\ UNCHANGED << evars, svars, avars, fvars >>

\* Dropping a handle; dropping the last Sender closes the channel.
DropHandle(p) ==
    /\ p \in holders
    /\ holders' = holders \ {p}
    /\ is_open' = (is_open /\ holders' # {})
    /\ UNCHANGED << written, message_queue, last_write, pc, addrs, addr,
                    udp_socket, bytes, handed, rejected, discarded,
                    next_done, last_lookup, slept, at_failure >>
    /\ UNCHANGED << resolved, ends, tasks >>
    /\ UNCHANGED << evars, svars, avars, fvars >>

\* VintedUdpWriter::write (and the send at the end of Logger::on_event):
\* self.sender.clone().try_send(Bytes::from(buf)); Ok(buf.len()).
Write(p) ==
    /\ p \in holders
    /\ TotalWritten < MaxWrites
    /\ LET buf == Buf(p, written[p] + 1)
           r == TrySend(CloneSender, is_open)
       IN /\ written' = [written EXCEPT ![p] = @ + 1]
          /\ message_queue' = IF r = "Ok" THEN Append(message_queue, buf)
                              ELSE message_queue
          /\ rejected' = IF r = "Ok" THEN rejected ELSE rejected \cup {buf}
          /\ last_write' = [buf |-> buf, try_send |-> r,
                             ret |-> WriteResult(r, buf)]
    /\ UNCHANGED << holders, is_open, pc, addrs, addr, udp_socket, bytes,
                    handed, discarded, next_done, last_lookup, slept,
                    at_failure >>
    /\ UNCHANGED << resolved, ends, tasks >>
    /\ UNCHANGED << evars, svars, avars, fvars >>

(* -------------------------- background task --------------------------- *)

\* What lookup_host can resolve the configured address to.
LookupResults == { << V4 >>, << V6 >>, << V4, V6 >> }

IsIpv4(a) == a = V4

\* A bind to the IPv4 wildcard whatever the destination.
BindAddrV4Only(a) == "0.0.0.0:0"

\* "Bind address version must match address version".
BindAddr(a) == IF IsIpv4(a) THEN "0.0.0.0:0" ELSE "[::]:0"

\* lookup_host(&addr).await succeeded; flatten() yields its addresses.
LookupOk ==
    /\ pc = "lookup"
    /\ \E as \in LookupResults : addrs' = as
    /\ last_lookup' = << last_lookup[2], "ok" >>
    /\ slept' = 0
    /\ pc' = "for"
    /\ UNCHANGED << holders, written, is_open, message_queue, last_write, addr,
                    udp_socket, bytes, handed, rejected, discarded,
                    next_done, at_failure >>
    /\ resolved' = addrs'
    /\ ends' = << >>
    /\ UNCHANGED tasks
    /\ UNCHANGED << evars, svars, avars, fvars >>

\* A failed lookup retried at once, without the sleep.
LookupErrRetryNow ==
    /\ pc = "lookup"
    /\ addrs' = << >>
    /\ last_lookup' = << last_lookup[2], "err" >>
    /\ slept' = 0
    /\ pc' = "lookup"
    /\ UNCHANGED << holders, written, is_open, message_queue, last_write, addr,
                    udp_socket, bytes, handed, rejected, discarded,
                    next_done, at_failure >>
    /\ resolved' = << >>
    /\ ends' = << >>
    /\ UNCHANGED tasks
    /\ UNCHANGED << evars, svars, avars, fvars >>

\* lookup_host failed: into_iter().flatten() of the Err yields nothing.
LookupErr ==
    /\ pc = "lookup"
    /\ addrs' = << >>
    /\ last_lookup' = << last_lookup[2], "err" >>
    /\ slept' = 0
    /\ pc' = "for"
    /\ UNCHANGED << holders, written, is_open, message_queue, last_write, addr,
                    udp_socket, bytes, handed, rejected, discarded,
                    next_done, at_failure >>
    /\ resolved' = << >>
    /\ ends' = << >>
    /\ UNCHANGED tasks
    /\ UNCHANGED << evars, svars, avars, fvars >>

\* A loop that goes from the last address straight back to the lookup.
ForAddrNoSleep ==
    /\ pc = "for"
    /\ IF addrs = << >>
       THEN /\ pc' = "lookup"
            /\ resolved' = << >>
            /\ ends' = << >>
            /\ UNCHANGED << addrs, addr >>
       ELSE /\ addr' = Head(addrs)
            /\ addrs' = Tail(addrs)
            /\ pc' = "bind"
            /\ UNCHANGED << resolved, ends >>
    /\ UNCHANGED tasks
    /\ UNCHANGED << holders, written, is_open, message_queue, last_write,
                    udp_socket, bytes, handed, rejected, discarded,
                    next_done, last_lookup, slept, at_failure >>
    /\ UNCHANGED << evars, svars, avars, fvars >>

\* A loop that connects to none of the addresses.
ForAddrSkipAll ==
    /\ pc = "for"
    /\ pc' = "sleep"
    /\ addrs' = << >>
    /\ resolved' = << >>
    /\ ends' = << >>
    /\ UNCHANGED << addr, tasks >>
    /\ UNCHANGED << holders, written, is_open, message_queue, last_write,
                    udp_socket, bytes, handed, rejected, discarded,
                    next_done, last_lookup, slept, at_failure >>
    /\ UNCHANGED << evars, svars, avars, fvars >>

\* A loop that takes the candidates from the back.
ForAddrLast ==
    /\ pc = "for"
    /\ IF addrs = << >>
       THEN /\ pc' = "sleep"
            /\ resolved' = << >>
            /\ ends' = << >>
            /\ UNCHANGED << addrs, addr >>
       ELSE /\ addr' = addrs[Len(addrs)]
            /\ addrs' = SubSeq(addrs, 1, Len(addrs) - 1)
            /\ pc' = "bind"
            /\ UNCHANGED << resolved, ends >>
    /\ UNCHANGED tasks
    /\ UNCHANGED << holders, written, is_open, message_queue, last_write,
                    udp_socket, bytes, handed, rejected, discarded,
                    next_done, last_lookup, slept, at_failure >>
    /\ UNCHANGED << evars, svars, avars, fvars >>

\* `for addr in addrs`: the next address, or the end of the loop body
\* (the iterator is dropped) and on to the sleep.
ForAddr ==
    /\ pc = "for"
    /\ IF addrs = << >>
       THEN /\ pc' = "sleep"
            /\ resolved' = << >>
            /\ ends' = << >>
            /\ UNCHANGED << addrs, addr >>
       ELSE /\ addr' = Head(addrs)
            /\ addrs' = Tail(addrs)
            /\ pc' = "bind"
            /\ UNCHANGED << resolved, ends >>
    /\ UNCHANGED tasks
    /\ UNCHANGED << holders, written, is_open, message_queue, last_write,
                    udp_socket, bytes, handed, rejected, discarded,
                    next_done, last_lookup, slept, at_failure >>
    /\ UNCHANGED << evars, svars, avars, fvars >>

\* UdpSocket::bind(bind_addr) succeeded.
BindOk ==
    /\ pc = "bind"
    /\ udp_socket' = BindAddr(addr)
    /\ pc' = "next"
    /\ UNCHANGED << holders, written, is_open, message_queue, last_write, addrs,
                    addr, bytes, handed, rejected, discarded, next_done,
                    last_lookup, slept, at_failure >>
    /\ UNCHANGED << resolved, ends, tasks >>
    /\ UNCHANGED << evars, svars, avars, fvars >>

\* A failed bind that has already taken a payload from the receiver.
BindErrConsuming ==
    /\ pc = "bind"
    /\ pc' = "for"
    /\ message_queue' = IF message_queue = << >> THEN << >>
                         ELSE Tail(message_queue)
    /\ ends' = Append(ends, "bind")
    /\ UNCHANGED << holders, written, is_open, last_write, addrs, addr,
                    udp_socket, bytes, handed, rejected, discarded,
                    next_done, last_lookup, slept, at_failure >>
    /\ UNCHANGED << resolved, tasks >>
    /\ UNCHANGED << evars, svars, avars, fvars >>

\* UdpSocket::bind failed: handle_udp_connection returns.
BindErr ==
    /\ pc = "bind"
    /\ pc' = "for"
    /\ UNCHANGED << holders, written, is_open, message_queue, last_write, addrs,
                    addr, udp_socket, bytes, handed, rejected, discarded,
                    next_done, last_lookup, slept, at_failure >>
    /\ ends' = Append(ends, "bind")
    /\ UNCHANGED << resolved, tasks >>
    /\ UNCHANGED << evars, svars, avars, fvars >>

\* receiver.next().await: the oldest payload; or None once the channel is
\* closed and empty, which ends handle_udp_connection; or pending.  A
\* receiver that has reported None reports it again to the next
\* handle_udp_connection call.
Next_ ==
    /\ pc = "next"
    /\ IF message_queue # << >>
       THEN /\ bytes' = Some(Dequeue(message_queue).msg)
            /\ message_queue' = Dequeue(message_queue).rest
            /\ at_failure' = IF at_failure = << >> THEN << >>
                              ELSE Tail(at_failure)
            /\ pc' = "send"
            /\ UNCHANGED << udp_socket, next_done, ends >>
       ELSE /\ ~is_open
            /\ next_done' = TRUE
            /\ udp_socket' = None
            /\ ends' = Append(ends, "closed")
            /\ pc' = "for"
            /\ UNCHANGED << bytes, message_queue, at_failure >>
    /\ UNCHANGED << holders, written, is_open, last_write, addrs, addr, handed,
                    rejected, discarded, last_lookup, slept >>
    /\ UNCHANGED << resolved, tasks >>
    /\ UNCHANGED << evars, svars, avars, fvars >>

\* One completed sink.send((bytes, addr)) call and whether it succeeded.
Datagram(b, ok) == [bytes |-> b, ok |-> ok]

\* sink.send((bytes, addr)).await succeeded: one datagram to addr.
SendOk ==
    /\ pc = "send"
    /\ handed' = Append(handed, Datagram(bytes[1], TRUE))
    /\ bytes' = NoBytes
    /\ pc' = "next"
    /\ UNCHANGED << holders, written, is_open, message_queue, last_write, addrs,
                    addr, udp_socket, rejected, discarded, next_done,
                    last_lookup, slept, at_failure >>
    /\ UNCHANGED << resolved, ends, tasks >>
    /\ UNCHANGED << evars, svars, avars, fvars >>

\* A loop that puts the payload of a failed send back for a retry.
RequeueOnErr(q, b) == << b >> \o q

\* A reconnect that starts from an empty channel.
ClearOnErr(q, b) == << >>

\* What a failed send of payload b leaves buffered in the channel: the
\* loop breaks without touching the receiver, and b is not put back.
AfterSendErr(q, b) == q

\* A loop that drops the payload of a failed send and goes on with the
\* next payload on the same socket.
SendErrKeepSocket ==
    /\ pc = "send"
    /\ handed' = Append(handed, Datagram(bytes[1], FALSE))
    /\ bytes' = NoBytes
    /\ at_failure' = message_queue
    /\ pc' = "next"
    /\ UNCHANGED << holders, written, is_open, message_queue, last_write,
                    addrs, addr, udp_socket, rejected, discarded, next_done,
                    last_lookup, slept >>
    /\ UNCHANGED << resolved, ends, tasks >>
    /\ UNCHANGED << evars, svars, avars, fvars >>

\* sink.send failed: `break`, the payload and the socket are dropped and
\* handle_udp_connection returns.
SendErr ==
    /\ pc = "send"
    /\ handed' = Append(handed, Datagram(bytes[1], FALSE))
    /\ message_queue' = AfterSendErr(message_queue, bytes[1])
    /\ bytes' = NoBytes
    /\ udp_socket' = None
    /\ at_failure' = message_queue
    /\ pc' = "for"
    /\ UNCHANGED << holders, written, is_open, last_write, addrs, addr,
                    rejected, discarded, next_done, last_lookup, slept >>
    /\ ends' = Append(ends, "send")
    /\ UNCHANGED << resolved, tasks >>
    /\ UNCHANGED << evars, svars, avars, fvars >>

\* time::sleep(DEFAULT_TIMEOUT ms).await completed; back to the top of
\* the reconnection loop.
Sleep ==
    /\ pc = "sleep"
    /\ slept' = slept + 1
    /\ pc' = "lookup"
    /\ UNCHANGED << holders, written, is_open, message_queue, last_write, addrs,
                    addr, udp_socket, bytes, handed, rejected, discarded,
                    next_done, last_lookup, at_failure >>
    /\ UNCHANGED << resolved, ends, tasks >>
    /\ UNCHANGED << evars, svars, avars, fvars >>

Range(q) == { q[i] : i \in 1..Len(q) }

\* The spawned task is dropped at one of its await points (the runtime
\* shuts down, or the caller drops the BackgroundTask).  Dropping the
\* Receiver closes the channel and drains what it holds; the task's locals
\* (the address iterator, the socket, a payload in flight) go with it.
DropTask ==
    /\ pc # "gone"
    /\ pc' = "gone"
    /\ is_open' = FALSE
    /\ discarded' = discarded \cup Range(message_queue)
                       \cup Range(bytes)
    /\ message_queue' = << >>
    /\ bytes' = NoBytes
    /\ udp_socket' = None
    /\ at_failure' = << >>
    /\ addrs' = << >>
    /\ addr' = None
    /\ UNCHANGED << holders, written, last_write, handed, rejected,
                    next_done, last_lookup, slept >>
    /\ resolved' = << >>
    /\ ends' = << >>
    /\ tasks' = 0
    /\ UNCHANGED << evars, svars, avars, fvars >>

Shipper ==
    \/ LookupOk
    \/ ForAddr
    \/ BindOk
    \/ Next_
    \/ SendOk
    \/ Sleep

Faults ==
    \/ LookupErr
    \/ BindErr
    \/ SendErr
    \/ DropTask

Producing ==
    \/ \E p \in Producers : Write(p)
    \/ \E p, q \in Producers : MakeWriter(p, q)
    \/ \E p \in Producers : DropHandle(p)

(* ------------------------ Logger::on_event ----------------------------- *)

\* Longest field list of an event explored.
MaxFields == 2

Levels == {"Error", "Warn", "Info", "Debug", "Trace"}

\* Field names an event may carry: the reserved names of the record, the
\* further names the visitor singles out, and an ordinary one.
Reserved == {"message", "level", "timestamp", "target", "host", "facility",
             "environment"}

FieldNames == Reserved \cup {"module", "file", "user_id"}

\* Field values: a &str (Visit::record_str) and an i64 (Visit::record_i64,
\* whose default implementation calls record_debug).
FieldValues == {[t |-> "str", v |-> "bogus"], [t |-> "i64", v |-> 7]}

Fields == [name : FieldNames, value : FieldValues]

\* Field lists of a callsite: up to MaxFields fields with distinct names.
FieldLists ==
    UNION { { fs \in [1..n -> Fields] :
                \A i, j \in 1..n : i # j => fs[i].name # fs[j].name }
            : n \in 0..MaxFields }

\* Utc::now().to_string()
Now == "2026-01-01 00:00:00 UTC"

Events == [level : Levels, fields : FieldLists]

\* serde_json::Value::String
JString(s) == [t |-> "String", s |-> s]

EmptyMap == << >>

\* Map::insert: a later insert of a key replaces the earlier value.
Insert(m, k, v) ==
    [x \in DOMAIN m \cup {k} |-> IF x = k THEN v ELSE m[x]]

\* format!("{:#?}", value) in record_debug.
DebugFmt(value) == IF value.t = "i64" THEN ToString(value.v) ELSE value.v

\* The string the visitor stores for a field value: record_str stores the
\* &str as it is, every other kind goes through record_debug.
Recorded(value) ==
    IF value.t = "str" THEN JString(value.v) ELSE JString(DebugFmt(value))

\* A visitor that also stores `level` under its bare key.
IsBareFieldWithLevel(name) ==
    name \in {"target", "module", "file", "message", "level"}

\* The match arms of record_debug / record_str that call record_value.
IsBareField(name) == name \in {"target", "module", "file", "message"}

\* record_additional_value: format!("_{}", field)
Prefixed(name) == "_" \o name

\* AdditionalFieldVisitor::record_debug / record_str for one field.
RecordField(m, f) ==
    IF IsBareField(f.name) THEN Insert(m, f.name, Recorded(f.value))
    ELSE Insert(m, Prefixed(f.name), Recorded(f.value))

\* event.record(&mut add_field_visitor): every field, in callsite order.
RECURSIVE RecordAll(_, _)
RecordAll(m, fs) ==
    IF fs = << >> THEN m
    ELSE RecordAll(RecordField(m, Head(fs)), Tail(fs))

\* The object before the visitor runs: level and timestamp.
Structural(ev) ==
    Insert(Insert(EmptyMap, "level", JString(ev.level)),
           "timestamp", JString(Now))

(* JSON text.  A text is the sequence of its tokens: punctuation, string  *)
(* literals and number literals, each with its characters.               *)

Punct(c) == [k |-> "punct", v |-> c]

StrTok(str) == [k |-> "str", v |-> str]

NumTok(digits) == [k |-> "num", v |-> digits]

\* The byte raw.push(0) appends.
Nul == [k |-> "byte", v |-> "0"]

\* serde_json::Value::Number, by its digits.
JNumber(digits) == [t |-> "Number", s |-> digits]

\* serde_json::Value::Object
JObject(m) == [t |-> "Object", m |-> m]

\* The keys the records of this model can carry, in ascending order: the
\* order in which serde_json's Map iterates.
KeyOrder ==
    << "_environment", "_facility", "_host", "_level", "_timestamp",
       "_user_id", "environment", "facility", "field", "field_error", "file",
       "host", "level", "message", "module", "name", "target", "timestamp",
       "yaks" >>

KeyRank(key) == CHOOSE i \in 1..Len(KeyOrder) : KeyOrder[i] = key

RECURSIVE SortedKeys(_)
SortedKeys(S) ==
    IF S = {} THEN << >>
    ELSE LET first == CHOOSE x \in S :
                          \A y \in S : KeyRank(x) <= KeyRank(y)
         IN << first >> \o SortedKeys(S \ {first})

\* serde_json::to_vec / to_string of a Value: compact JSON text.
RECURSIVE ToVec(_)
RECURSIVE EntriesText(_, _)
ToVec(value) ==
    IF value.t = "String" THEN << StrTok(value.s) >>
    ELSE IF value.t = "Number" THEN << NumTok(value.s) >>
    ELSE << Punct("{") >> \o EntriesText(value.m, SortedKeys(DOMAIN value.m))
             \o << Punct("}") >>

EntriesText(m, keys) ==
    IF keys = << >> THEN << >>
    ELSE << StrTok(Head(keys)), Punct(":") >> \o ToVec(m[Head(keys)])
           \o (IF Tail(keys) = << >> THEN << >> ELSE << Punct(",") >>)
           \o EntriesText(m, Tail(keys))

\* The value of a failed parse.
Null == [t |-> "Null", s |-> "null"]

ParseOk(value, rest) == [ok |-> TRUE, value |-> value, rest |-> rest,
                         err |-> ""]

ParseErr(msg) == [ok |-> FALSE, value |-> Null, rest |-> << >>, err |-> msg]

\* serde_json's deserializer for a Value: a string, a number, or an
\* object of `"key": value` members separated by commas.  ParseMembers
\* stands where a key is expected; a closing brace is accepted there only
\* straight after the opening one.
RECURSIVE ParseValue(_)
RECURSIVE ParseMembers(_, _, _)
ParseValue(text) ==
    IF text = << >> THEN ParseErr("EOF while parsing a value")
    ELSE IF Head(text).k = "str"
         THEN ParseOk(JString(Head(text).v), Tail(text))
    ELSE IF Head(text).k = "num"
         THEN ParseOk(JNumber(Head(text).v), Tail(text))
    ELSE IF Head(text) = Punct("{")
         THEN ParseMembers(Tail(text), EmptyMap, TRUE)
    ELSE ParseErr("expected value")

ParseMembers(text, m, may_close) ==
    IF text = << >> THEN ParseErr("EOF while parsing an object")
    ELSE IF may_close /\ Head(text) = Punct("}")
         THEN ParseOk(JObject(m), Tail(text))
    ELSE IF Head(text).k # "str" THEN ParseErr("key must be a string")
    ELSE IF Len(text) < 2 THEN ParseErr("EOF while parsing an object")
    ELSE IF text[2] # Punct(":") THEN ParseErr("expected colon")
    ELSE LET member == ParseValue(SubSeq(text, 3, Len(text)))
             fields == Insert(m, Head(text).v, member.value)
         IN IF ~member.ok THEN member
            ELSE IF member.rest = << >>
                 THEN ParseErr("EOF while parsing an object")
            ELSE IF Head(member.rest) = Punct(",")
                 THEN ParseMembers(Tail(member.rest), fields, FALSE)
            ELSE IF Head(member.rest) = Punct("}")
                 THEN ParseOk(JObject(fields), Tail(member.rest))
            ELSE ParseErr("expected comma or closing brace")

\* serde_json::from_str::<Value>: one value and nothing after it.
FromStr(text) ==
    LET parsed == ParseValue(text)
    IN IF ~parsed.ok THEN parsed
       ELSE IF parsed.rest # << >> THEN ParseErr("trailing characters")
       ELSE parsed

\* serde_json::to_vec(&final_object), then raw.push(0).
Raw(m) == ToVec(JObject(m)) \o << Nul >>

\* Identity fields given to the Builder (Builder::facility, ::host and
\* ::environment).
Configs == [facility : {"svc", "billing"}, host : {"h1"},
            environment : {"production"}]

\* Builder::default()
DefaultBuilder == [facility |-> "new_facility", host |-> "",
                   environment |-> "dev"]

\* Builder::connect_udp: base_object takes the builder's identity fields;
\* the Logger's own environment, facility and host are the literals
\* written in the constructor expression.
ConnectUdp(builder) ==
    [base_object |->
         Insert(Insert(Insert(EmptyMap, "host", JString(builder.host)),
                       "environment", JString(builder.environment)),
                "facility", JString(builder.facility)),
     environment |-> "dev",
     facility |-> "new_facility",
     host |-> ""]

EncoderIdle ==
    /\ config = DefaultBuilder
    /\ logger = ConnectUdp(config)
    /\ event = [level |-> "Info", fields |-> << >>]
    /\ object = EmptyMap
    /\ raw = << >>
    /\ epc = "idle"

\* Logger::on_event up to the bytes it hands to try_send.
OnEvent ==
    /\ epc = "event"
    /\ object' = RecordAll(Structural(event), event.fields)
    /\ raw' = Raw(object')
    /\ epc' = "encoded"
    /\ UNCHANGED << config, logger, event >>
    /\ UNCHANGED << pvars, svars, avars, fvars >>

(* -------------------- SerializableSpan::serialize --------------------- *)

\* Longest FormattedFields buffer explored, in tokens.
MaxTokens == 5

\* The tokens a buffer is made of.
Alphabet == { Punct("{"), Punct("}"), Punct(":"), Punct(","),
              StrTok("yaks"), NumTok("3") }

\* FormattedFields buffers: every text of up to MaxTokens tokens; what a
\* span's buffer holds depends on the field formatter N of the subscriber.
Buffers == UNION { [1..n -> Alphabet] : n \in 0..MaxTokens }

Spans == [name : {"shaving"}, data : Buffers]

\* One serialize_entry(key, value) call.
Entry(key, value) == [key |-> key, value |-> value]

\* `for field in fields { serialize_entry(&field.0, &field.1) }`
RECURSIVE FieldEntries(_, _)
FieldEntries(m, keys) ==
    IF keys = << >> THEN << >>
    ELSE << Entry(Head(keys), m[Head(keys)]) >> \o FieldEntries(m, Tail(keys))

\* The map serialize completed, entry by entry.
Frame(entries) == [panicked |-> FALSE, entries |-> entries]

\* panic!("span '{}' had malformed fields! this is a bug. ...")
Panicked == [panicked |-> TRUE, entries |-> << >>]

\* A lenient build that leaves a buffer it cannot use out of the frame.
SerializeSpanSilent(sp, dbg) ==
    LET parsed == FromStr(sp.data)
        name == << Entry("name", JString(sp.name)) >>
    IN IF parsed.ok /\ parsed.value.t = "Object"
       THEN Frame(FieldEntries(parsed.value.m,
                               SortedKeys(DOMAIN parsed.value.m)) \o name)
       ELSE IF dbg THEN Panicked
       ELSE Frame(name)

\* SerializableSpan::serialize: the match on serde_json::from_str(&data),
\* arm by arm, then the name entry.
SerializeSpan(sp, dbg) ==
    LET parsed == FromStr(sp.data)
        name == << Entry("name", JString(sp.name)) >>
    IN IF parsed.ok /\ parsed.value.t = "Object"
       THEN Frame(FieldEntries(parsed.value.m,
                               SortedKeys(DOMAIN parsed.value.m)) \o name)
       ELSE IF parsed.ok /\ dbg THEN Panicked
       ELSE IF parsed.ok
       THEN Frame(<< Entry("field", parsed.value),
                     Entry("field_error",
                           JString("field was no a valid object")) >>
                  \o name)
       ELSE IF dbg THEN Panicked
       ELSE Frame(<< Entry("field_error", JString(parsed.err)) >> \o name)

SpanIdle ==
    /\ span = [name |-> "shaving", data |-> << >>]
    /\ debug_assertions = FALSE
    /\ frame = Frame(<< >>)
    /\ spc = "idle"

\* One call of SerializableSpan::serialize.
Serialize ==
    /\ spc = "span"
    /\ frame' = SerializeSpan(span, debug_assertions)
    /\ spc' = IF frame'.panicked THEN "panicked" ELSE "serialized"
    /\ UNCHANGED << span, debug_assertions >>
    /\ UNCHANGED << pvars, evars, avars, fvars >>

(* ----------------------- VintedJson::format_event --------------------- *)

\* The spans of the registry, by id.
SpanIds == {1, 2, 3}

\* A span's name and its FormattedFields buffer: an empty object, an
\* object with one field, and a buffer in the default (non-JSON) format.
SpanOf(id) ==
    IF id = 1 THEN [name |-> "request",
                    data |-> << Punct("{"), Punct("}") >>]
    ELSE IF id = 2
    THEN [name |-> "query",
          data |-> << Punct("{"), StrTok("yaks"), Punct(":"), NumTok("3"),
                      Punct("}") >>]
    ELSE [name |-> "shaving",
          data |-> << StrTok("yaks"), Punct(":"), NumTok("3") >>]

\* The chains a current span can have: distinct spans, root first; empty
\* outside every span.
Contexts ==
    UNION { { c \in [1..n -> SpanIds] :
                \A i, j \in 1..n : i # j => c[i] # c[j] }
            : n \in 0..Cardinality(SpanIds) }

\* Event::parent as the callsite gave it: contextual, an explicit root
\* (parent: None), or an explicit parent span.
Parents ==
    { [kind |-> "Current", id |-> 0], [kind |-> "Root", id |-> 0] }
        \cup { [kind |-> "Explicit", id |-> i] : i \in SpanIds }

\* Callsite metadata: file, module path and line are all optional.
Callsites ==
    { [file |-> << >>, module |-> << >>, line |-> << >>],
      [file |-> << "src/main.rs" >>, module |-> << "app" >>,
       line |-> << "42" >>] }

FmtEvents ==
    [level : Levels, target : {"app"}, parent : Parents,
     fields : { << >>,
                << [name |-> "message",
                    value |-> [t |-> "str", v |-> "bogus"]] >> },
     callsite : Callsites]

\* ChronoUtc::rfc3339().format_time
NowRfc3339 == "2026-01-01T00:00:00Z"

\* The facility given to VintedJson::new.
FormatterFacility == "svc"

\* tracing_serde's Level::as_serde: the level as tracing displays it.
AsSerde(level) ==
    IF level = "Error" THEN "ERROR"
    ELSE IF level = "Warn" THEN "WARN"
    ELSE IF level = "Info" THEN "INFO"
    ELSE IF level = "Debug" THEN "DEBUG"
    ELSE "TRACE"

\* A serialized sequence.
JArray(elems) == [t |-> "Array", a |-> elems]

\* event.parent().and_then(|id| ctx.span(id)).or_else(|| ctx.lookup_current())
\* as an Option of a span id.
CurrentSpan(c, ev) ==
    IF ev.parent.kind = "Explicit" THEN << ev.parent.id >>
    ELSE IF c = << >> THEN << >>
    ELSE << c[Len(c)] >>

\* SerializableContext::serialize: `for span in self.0.scope()`, the
\* spans of the current context from the root to the current span.
SerializeContext(c, dbg) == [i \in 1..Len(c) |-> SerializeSpan(SpanOf(c[i]), dbg)]

\* tracing_serde::SerdeMapVisitor: one entry per event field.
RECURSIVE VisitFields(_)
VisitFields(fs) ==
    IF fs = << >> THEN << >>
    ELSE << Entry(Head(fs).name, Recorded(Head(fs).value)) >>
           \o VisitFields(Tail(fs))

\* `if let Some(x) = ... { serialize_entry(key, x) }`
OptEntry(key, opt) ==
    IF opt = << >> THEN << >> ELSE << Entry(key, JString(opt[1])) >>

\* VintedJson::format_event: the entries of the map in the order they
\* are written, or the panic of a span frame.
FormatEvent(c, ev, dbg) ==
    LET current_span == CurrentSpan(c, ev)
        spans == SerializeContext(c, dbg)
        span_frame == SerializeSpan(SpanOf(current_span[1]), dbg)
        chain == IF current_span = << >> THEN << >>
                 ELSE << Entry("spans", JArray(spans)),
                         Entry("span", span_frame) >>
        panics == /\ current_span # << >>
                  /\ \/ \E i \in 1..Len(spans) : spans[i].panicked
                     \/ span_frame.panicked
    IN IF panics THEN Panicked
       ELSE Frame(<< Entry("@timestamp", JString(NowRfc3339)),
                     Entry("level", JString(AsSerde(ev.level))),
                     Entry("facility", JString(FormatterFacility)) >>
                  \o VisitFields(ev.fields)
                  \o << Entry("target", JString(ev.target)) >>
                  \o chain
                  \o << Entry("thread_id", JString("ThreadId(1)")),
                        Entry("thread_name", JString("main")) >>
                  \o OptEntry("file", ev.callsite.file)
                  \o OptEntry("module", ev.callsite.module)
                  \o (IF ev.callsite.line = << >> THEN << >>
                      ELSE << Entry("line", JNumber(ev.callsite.line[1])) >>)
                  \o << Entry("host", JString("h1")) >>)

FmtIdle ==
    /\ ctx = << >>
    /\ fevent = [level |-> "Info", target |-> "app",
                 parent |-> [kind |-> "Current", id |-> 0],
                 fields |-> << >>,
                 callsite |-> [file |-> << >>, module |-> << >>,
                               line |-> << >>]]
    /\ formatted = Frame(<< >>)
    /\ fpc = "idle"

\* One call of VintedJson::format_event.
FormatEventCall ==
    /\ fpc = "event"
    /\ formatted' = FormatEvent(ctx, fevent, debug_assertions)
    /\ fpc' = IF formatted'.panicked THEN "panicked" ELSE "formatted"
    /\ UNCHANGED << ctx, fevent >>
    /\ UNCHANGED << pvars, evars, svars, avars >>

(* --------------------------- FluentdAppender --------------------------- *)

\* Total number of append calls explored.
MaxAppends == 3

\* The facility given to FluentdAppenderBuilder::facility, and the host
\* name gethostname() returned.
AppenderFacility == "svc"

AppenderHost == "h1"

\* log::Record values handed to append.
LogEvents == [target : {"app", "app::db"}, level : {"INFO", "ERROR"},
              args : {"m"}]

\* LogRecord::new(facility, host, module, file, level, message) as append
\* calls it: record.target() is passed for the facility.
LogRecordNew(rec, host) ==
    [facility |-> rec.target, host |-> host, level |-> rec.level,
     message |-> rec.args]

\* std::sync::mpsc::Sender::send: an error once the Receiver is dropped.
StdSend(receiver_alive) == IF receiver_alive THEN "Ok" ELSE "Err"

\* `sender.send(log_record)?; Ok(())`: the ? returns the error.
AppendResult(r) == r

AppenderIdle ==
    /\ worker = "none"
    /\ channel = << >>
    /\ log_record = << >>
    /\ appended = 0
    /\ append_ret = "None"

\* FluentdAppender::append
AppenderAppend(rec) ==
    /\ appended < MaxAppends
    /\ LET r == StdSend(worker # "ended")
       IN /\ channel' = IF r = "Ok"
                         THEN Append(channel, LogRecordNew(rec, AppenderHost))
                         ELSE channel
          /\ append_ret' = AppendResult(r)
    /\ appended' = appended + 1
    /\ UNCHANGED << worker, log_record >>
    /\ UNCHANGED << pvars, evars, svars, fvars >>

\* WorkerPool::with_settings returned Ok(pool): the thread enters its loop.
WithSettingsOk ==
    /\ worker = "pool"
    /\ worker' = "recv"
    /\ UNCHANGED << channel, log_record, appended, append_ret >>
    /\ UNCHANGED << pvars, evars, svars, fvars >>

\* WorkerPool::with_settings returned Err: the closure ends, and the
\* Receiver it owns is dropped with what the channel holds.
WithSettingsErr ==
    /\ worker = "pool"
    /\ worker' = "ended"
    /\ channel' = << >>
    /\ UNCHANGED << log_record, appended, append_ret >>
    /\ UNCHANGED << pvars, evars, svars, fvars >>

\* receiver.recv() returned Ok(log_record).  It blocks on an empty
\* channel; its Err arm needs the Sender dropped, and the Sender lives in
\* the appender.
Recv ==
    /\ worker = "recv"
    /\ channel # << >>
    /\ log_record' = << Head(channel) >>
    /\ channel' = Tail(channel)
    /\ worker' = "send"
    /\ UNCHANGED << appended, append_ret >>
    /\ UNCHANGED << pvars, evars, svars, fvars >>

\* pool.send(facility, &log_record, timestamp) returned Ok.
PoolSendOk ==
    /\ worker = "send"
    /\ log_record' = << >>
    /\ worker' = "recv"
    /\ UNCHANGED << channel, appended, append_ret >>
    /\ UNCHANGED << pvars, evars, svars, fvars >>

\* pool.send returned Err: eprintln!, and on with the loop.
PoolSendErr ==
    /\ worker = "send"
    /\ log_record' = << >>
    /\ worker' = "recv"
    /\ UNCHANGED << channel, appended, append_ret >>
    /\ UNCHANGED << pvars, evars, svars, fvars >>

Init == PipelineInit /\ EncoderIdle /\ SpanIdle /\ AppenderIdle /\ FmtIdle

Next == Producing \/ Shipper \/ Faults

Spec == Init /\ [][Next]_vars

EncInit ==
    /\ PipelineInit
    /\ config \in Configs
    /\ logger = ConnectUdp(config)
    /\ event \in Events
    /\ object = EmptyMap
    /\ raw = << >>
    /\ epc = "event"
    /\ SpanIdle
    /\ AppenderIdle
    /\ FmtIdle

EncNext == OnEvent

\* Logger::on_event applied to every event of the bounded input set.
EncSpec == EncInit /\ [][EncNext]_vars

\* The pipeline with every lookup, bind and send succeeding and the task
\* never dropped; the runtime schedules the spawned task fairly.
NextOk == Producing \/ Shipper

FairSpec == Init /\ [][NextOk]_vars /\ WF_vars(Shipper)

SpanInit ==
    /\ PipelineInit
    /\ EncoderIdle
    /\ AppenderIdle
    /\ FmtIdle
    /\ span \in Spans
    /\ debug_assertions \in BOOLEAN
    /\ frame = Frame(<< >>)
    /\ spc = "span"

SpanNext == Serialize

\* SerializableSpan::serialize applied to every span of the bounded input
\* set, in a build with and in a build without debug_assertions.
SpanSpec == SpanInit /\ [][SpanNext]_vars

\* The appender as FluentdAppenderBuilder::build leaves it: an empty
\* channel, the worker thread about to create its pool.
AppInit ==
    /\ PipelineInit
    /\ EncoderIdle
    /\ SpanIdle
    /\ FmtIdle
    /\ worker = "pool"
    /\ channel = << >>
    /\ log_record = << >>
    /\ appended = 0
    /\ append_ret = "None"

AppNext ==
    \/ \E rec \in LogEvents : AppenderAppend(rec)
    \/ WithSettingsOk
    \/ WithSettingsErr
    \/ Recv
    \/ PoolSendOk
    \/ PoolSendErr

AppSpec == AppInit /\ [][AppNext]_vars

FmtInit ==
    /\ PipelineInit
    /\ EncoderIdle
    /\ AppenderIdle
    /\ span = [name |-> "shaving", data |-> << >>]
    /\ debug_assertions \in BOOLEAN
    /\ frame = Frame(<< >>)
    /\ spc = "idle"
    /\ ctx \in Contexts
    /\ fevent \in FmtEvents
    /\ formatted = Frame(<< >>)
    /\ fpc = "event"

FmtNext == FormatEventCall

\* VintedJson::format_event applied to every event and span context of
\* the bounded input sets, in both builds.
FmtSpec == FmtInit /\ [][FmtNext]_vars

(* ------------------------------- claims -------------------------------- *)

IsPrefix(a, b) == Len(a) <= Len(b) /\ SubSeq(b, 1, Len(a)) = a

\* The capacity of the channel as mpsc::channel documents it: the buffer
\* plus one guaranteed slot for each handle that can exist.
Capacity == BufferSize + Cardinality(Producers)

\* C1: a write never blocks and never fails: whatever try_send answered,
\* the call returned Ok(buf.len()), and a producer holding a handle can
\* always take its step.
WriteNeverFails ==
    /\ last_write.try_send # "None"
         => last_write.ret = [kind |-> "Ok", n |-> Len(last_write.buf)]
    /\ \A p \in holders : TotalWritten < MaxWrites => ENABLED Write(p)

\* A write made after the task was dropped: try_send reported Disconnected.
WriteOnClosedChannel ==
    /\ pc = "gone"
    /\ last_write.try_send = "Disconnected"
    /\ last_write.ret.kind = "Ok"

\* C2: the number of payloads buffered in the mailbox never exceeds the
\* configured capacity.
MailboxWithinCapacity == Len(message_queue) <= Capacity

\* C3: a write made while the mailbox is at capacity leaves the mailbox
\* contents unchanged (the payload is dropped).
DropOnFullKeepsMailbox ==
    [][(Len(message_queue) >= Capacity /\ written' # written)
          => message_queue' = message_queue]_vars

\* C4: payloads of one producer are handed to the socket in the order the
\* producer wrote them.
PerProducerOrder ==
    \A i, j \in 1..Len(handed) :
        (i < j /\ Producer(handed[i].bytes) = Producer(handed[j].bytes))
            => SeqNo(handed[i].bytes) < SeqNo(handed[j].bytes)

\* Two payloads of one producer were sent, one of another producer between.
InterleavedSends ==
    \E i, j, k \in 1..Len(handed) :
        /\ i < k /\ k < j
        /\ handed[i].ok /\ handed[j].ok /\ handed[k].ok
        /\ Producer(handed[i].bytes) = Producer(handed[j].bytes)
        /\ Producer(handed[k].bytes) # Producer(handed[i].bytes)

ResolutionStep == pc = "lookup" /\ pc' = "for"

BindStep == pc = "bind" /\ pc' \in {"next", "for"}

SleepStep == pc = "sleep" /\ pc' = "lookup"

\* C5: once the receiver has reported the end of the stream (every handle
\* dropped, mailbox drained) the loop does no further lookup, bind or sleep.
TerminatesOnceClosed ==
    [][next_done => ~(ResolutionStep \/ BindStep \/ SleepStep)]_vars

\* C6: from the connected state with nothing failing, a fresh lookup is
\* eventually performed again.
PeriodicReResolve == [](pc = "next" => <>(pc = "lookup"))

\* C7: after a failed lookup the loop dequeues nothing, sleeps exactly once
\* and looks up again; a connection is only entered straight after a
\* successful lookup, with no further sleep in between.
BackoffAfterFailedLookup ==
    /\ last_lookup[2] = "err"
         => /\ pc \in {"for", "sleep", "lookup", "gone"}
            /\ bytes = NoBytes
            /\ addrs = << >>
            /\ pc \in {"for", "sleep"} => slept = 0
            /\ pc = "lookup" => slept = 1
    /\ pc \in {"bind", "next", "send"}
         => (last_lookup[2] = "ok" /\ slept = 0)

\* A payload is in flight straight after a failed and then a successful lookup.
SendingResumed ==
    /\ last_lookup = << "err", "ok" >>
    /\ pc = "send"

\* C8: no payload is handed to the socket twice, and a payload that was
\* handed to it (sent or failed) is not buffered again.
AtMostOnce ==
    /\ \A i, j \in 1..Len(handed) :
           i # j => handed[i].bytes # handed[j].bytes
    /\ \A i \in 1..Len(handed) :
           handed[i].bytes \notin Range(message_queue) \cup Range(bytes)
    /\ Range(bytes) \cap Range(message_queue) = {}

\* A send failed and a later payload was sent after the reconnect.
SentAfterFailure ==
    \E i, j \in 1..Len(handed) : i < j /\ ~handed[i].ok /\ handed[j].ok

\* C9: what was buffered when a send failed stays buffered, in order, and
\* leaves the mailbox only from its head, by being dequeued.
ReconnectKeepsBuffered == IsPrefix(at_failure, message_queue)

\* The latest send failed with two or more payloads buffered; the first of
\* them is now in flight on the next connection, the rest still buffered.
DrainingAfterReconnect ==
    /\ pc = "send"
    /\ at_failure # << >>
    /\ handed # << >>
    /\ ~handed[Len(handed)].ok

\* The event carries a field of this name.
HasField(ev, name) == \E i \in 1..Len(ev.fields) : ev.fields[i].name = name

FieldOf(ev, name) ==
    ev.fields[CHOOSE i \in 1..Len(ev.fields) : ev.fields[i].name = name]

\* The key `name` of the record is what it is without any event field:
\* its structural value, or absent when on_event sets no such key.
KeepsStructural(name) ==
    IF name \in DOMAIN Structural(event)
    THEN name \in DOMAIN object /\ object[name] = Structural(event)[name]
    ELSE name \notin DOMAIN object

\* The field's value is stored under the prefixed key.
StoredPrefixed(name) ==
    /\ Prefixed(name) \in DOMAIN object
    /\ object[Prefixed(name)] = Recorded(FieldOf(event, name).value)

\* The reserved names the visitor stores under their own key.
BareReserved == {"message", "target"}

IdentityFields == {"facility", "host", "environment"}

\* C11: every record the Logger encodes carries the identity fields
\* facility, host and environment with the values given to the builder.
IdentityInEveryRecord ==
    epc = "encoded" =>
        \A key \in IdentityFields :
            /\ key \in DOMAIN object
            /\ object[key] = JString(config[key])

\* C12: an event without a message field is encoded with the key message
\* present and equal to the empty string.
MessageAlwaysPresent ==
    (epc = "encoded" /\ ~HasField(event, "message")) =>
        /\ "message" \in DOMAIN object
        /\ object["message"] = JString("")

\* The JSON text of a payload: the bytes before the closing NUL.
Payload(bs) == SubSeq(bs, 1, Len(bs) - 1)

\* C13: parsing the payload of an event with a message m, of a pipeline
\* built with facility f, yields level equal to the level's name, message
\* equal to m and facility equal to f, and no key target, file or line
\* when the event sets none of them.
ReservedRoundTrip ==
    (/\ epc = "encoded"
     /\ HasField(event, "message")
     /\ ~HasField(event, "target")
     /\ ~HasField(event, "file")) =>
        LET parsed == FromStr(Payload(raw))
        IN /\ parsed.ok
           /\ parsed.value.t = "Object"
           /\ LET m == parsed.value.m
              IN /\ "level" \in DOMAIN m
                 /\ m["level"] = JString(event.level)
                 /\ "message" \in DOMAIN m
                 /\ m["message"] = Recorded(FieldOf(event, "message").value)
                 /\ "facility" \in DOMAIN m
                 /\ m["facility"] = JString(config.facility)
                 /\ {"target", "file", "line"} \cap DOMAIN m = {}

\* The frame has an entry with this key.
HasEntry(fr, key) == \E i \in 1..Len(fr.entries) : fr.entries[i].key = key

\* A buffer that does not parse, and one that parses to a number.
NotJson == << StrTok("yaks"), Punct(":"), NumTok("3") >>

NotAnObject == << NumTok("3") >>

\* The buffer is no JSON object: it does not parse, or to something else.
Malformed(data) == ~FromStr(data).ok \/ FromStr(data).value.t # "Object"

\* C14: for a span whose field buffer is not a JSON object, a build
\* without debug_assertions completes the frame with a field_error entry
\* and a build with debug_assertions panics; both for a buffer that does
\* not parse and for one that parses to something else.
MalformedFrameHandled ==
    /\ {NotJson, NotAnObject} \subseteq Buffers
    /\ ~FromStr(NotJson).ok
    /\ FromStr(NotAnObject).ok
    /\ Malformed(NotJson) /\ Malformed(NotAnObject)
    /\ (spc \in {"serialized", "panicked"} /\ Malformed(span.data)) =>
           IF debug_assertions
           THEN spc = "panicked" /\ frame.panicked
           ELSE /\ spc = "serialized"
                /\ ~frame.panicked
                /\ HasEntry(frame, "field_error")

\* A lenient build serialized a span whose buffer does not parse.
LenientFrameOfNotJson ==
    /\ spc = "serialized"
    /\ ~debug_assertions
    /\ span.data = NotJson
    /\ HasEntry(frame, "field_error")
    /\ HasEntry(frame, "name")

\* The largest payload the model takes as fitting one datagram.
SafeDatagramSize == 2

\* C15: no payload longer than the safe datagram size is buffered in the
\* mailbox or handed to the socket.
PayloadsWithinDatagramSize ==
    /\ \A b \in Range(message_queue) \cup Range(bytes) :
           Len(b) <= SafeDatagramSize
    /\ \A i \in 1..Len(handed) : Len(handed[i].bytes) <= SafeDatagramSize

\* The payloads the mailbox has accepted.
Accepted ==
    UNION { { Buf(p, k) : k \in 1..written[p] } : p \in Producers }
        \ rejected

\* C16: every datagram, and the payload in flight, is one accepted
\* payload as it was written, and the accepted payloads are as many as
\* the datagrams plus the payloads in flight, buffered or dropped with
\* the receiver: none is merged with another, none is split.
OneDatagramPerPayload ==
    /\ Len(bytes) <= 1
    /\ \A b \in Range(bytes) : b \in Accepted
    /\ \A i \in 1..Len(handed) : handed[i].bytes \in Accepted
    /\ Len(handed) + Len(bytes) + Len(message_queue)
           + Cardinality(discarded) = Cardinality(Accepted)

\* A datagram was sent, a payload is in flight and another is buffered.
SendingOneOfTwoBuffered ==
    /\ pc = "send"
    /\ message_queue # << >>
    /\ handed # << >>
    /\ handed[Len(handed)].ok

\* C17: FluentdAppender::append returns Ok for every record in every
\* state.
AppendAlwaysOk == append_ret # "Err"

\* C18 as stated: a payload is never handed to a socket when a connection
\* to an earlier address of the same lookup result ended in a send failure.
FreshResolutionAfterSendFailure ==
    pc = "send" => "send" \notin Range(ends)

\* A send to the socket completes with an error.
SendFailureStep ==
    /\ pc = "send"
    /\ Len(handed') = Len(handed) + 1
    /\ ~handed'[Len(handed')].ok

\* C18 as amended: a send failure releases the socket and leaves the
\* lookup result as it is; from there the loop binds a new socket for the
\* next address of that result if one is left, and only otherwise goes to
\* its sleep and the fresh lookup.
NewSocketAfterSendFailure ==
    [][/\ SendFailureStep
          => /\ udp_socket' = None
             /\ pc' = "for"
             /\ addrs' = addrs
             /\ resolved' = resolved
       /\ (pc = "for" /\ pc' \notin {"for", "gone"})
          => IF addrs # << >>
             THEN pc' = "bind" /\ addr' = Head(addrs) /\ udp_socket' = None
             ELSE pc' = "sleep"]_vars

\* A payload is in flight to the second address of a lookup result whose
\* first connection ended in a send failure.
SendingToNextCandidate ==
    /\ pc = "send"
    /\ resolved = << V4, V6 >>
    /\ ends = << "send" >>
    /\ addr = V6
    /\ udp_socket = BindAddr(V6)

\* C19: the candidates of a lookup result are used one at a time, in the
\* order of the result: the connection to candidate i + 1 exists only
\* after i connections have ended, and a payload in flight goes to that
\* one address, on the socket bound for it.
CandidatesInOrder ==
    /\ pc \in {"bind", "next", "send"}
         => /\ Len(ends) < Len(resolved)
            /\ addr = resolved[Len(ends) + 1]
            /\ addrs = SubSeq(resolved, Len(ends) + 2, Len(resolved))
    /\ pc = "for"
         => addrs = SubSeq(resolved, Len(ends) + 1, Len(resolved))
    /\ pc = "send"
         => /\ Len(bytes) = 1
            /\ udp_socket = BindAddr(addr)
    /\ pc # "send" => bytes = NoBytes

\* The first candidate could not be bound; a payload is in flight to the
\* second.
SendingToSecondAfterBindFailure ==
    /\ pc = "send"
    /\ resolved = << V4, V6 >>
    /\ ends = << "bind" >>
    /\ addr = V6

\* C20: one background task consumes the mailbox, however many handles
\* were cloned, and it holds a socket only between a successful bind and
\* the end of that connection: none is open when the next is bound.
SingleConsumerSingleSocket ==
    /\ tasks = IF pc = "gone" THEN 0 ELSE 1
    /\ pc \in {"lookup", "for", "bind", "sleep", "gone"} => udp_socket = None
    /\ pc \in {"next", "send"} => udp_socket = BindAddr(addr)

\* Two handles exist and the task holds the socket of the second
\* connection of a pass.
SecondSocketWithTwoHandles ==
    /\ holders = Producers
    /\ tasks = 1
    /\ Len(ends) = 1
    /\ pc = "next"
    /\ udp_socket # None

\* The frame embeds the text of the buffer: an entry beside name and
\* field_error whose value, written as JSON, is that text.
HasRawText(fr, data) ==
    \E i \in 1..Len(fr.entries) :
        /\ fr.entries[i].key \notin {"name", "field_error"}
        /\ ToVec(fr.entries[i].value) = data

\* C21: a lenient build encodes a span whose buffer is no JSON object
\* with the field_error entry, the text of the buffer and the name entry.
LenientFrameKeepsRawText ==
    (spc = "serialized" /\ ~debug_assertions /\ Malformed(span.data)) =>
        /\ HasEntry(frame, "field_error")
        /\ HasRawText(frame, span.data)
        /\ HasEntry(frame, "name")

\* The value the payload has under a key it carries.
EntryOf(fr, key) ==
    fr.entries[CHOOSE i \in 1..Len(fr.entries) : fr.entries[i].key = key].value

\* C22: for an event formatted inside a chain of spans, `spans` is the
\* array of the frames of that chain, innermost last, `span` is the last
\* element of `spans`, whatever parent the event names, and every frame
\* has a name entry.
SpanIsLastOfSpans ==
    (fpc = "formatted" /\ ctx # << >>) =>
        /\ HasEntry(formatted, "spans")
        /\ HasEntry(formatted, "span")
        /\ LET spans == EntryOf(formatted, "spans").a
               innermost == EntryOf(formatted, "span")
           IN /\ Len(spans) = Len(ctx)
              /\ \A i \in 1..Len(spans) :
                     /\ HasEntry(spans[i], "name")
                     /\ EntryOf(spans[i], "name") = JString(SpanOf(ctx[i]).name)
              /\ HasEntry(innermost, "name")
              /\ innermost = spans[Len(spans)]

\* The address family of a destination and of a local endpoint.
Family(a) == IF a = V4 THEN "v4" ELSE "v6"

LocalFamily(sock) == IF sock = "0.0.0.0:0" THEN "v4" ELSE "v6"

\* C23: the socket of a connection is bound to the wildcard address with
\* port 0 of the destination's family, and a payload is handed only to
\* such a socket.
BindFamilyMatches ==
    pc \in {"next", "send"} =>
        /\ addr \in {V4, V6}
        /\ udp_socket \in {"0.0.0.0:0", "[::]:0"}
        /\ LocalFamily(udp_socket) = Family(addr)

\* A payload is in flight to the IPv6 destination from the IPv6 wildcard.
SendingFromV6Wildcard ==
    /\ pc = "send"
    /\ addr = V6
    /\ udp_socket = "[::]:0"

\* Everything the producers have submitted.
Submitted ==
    UNION { { Buf(p, k) : k \in 1..written[p] } : p \in Producers }

HandedWith(ok) ==
    { handed[i].bytes : i \in { j \in 1..Len(handed) : handed[j].ok = ok } }

\* The number of the given places that hold payload b.
RECURSIVE PlacesHolding(_, _)
PlacesHolding(b, places) ==
    IF places = << >> THEN 0
    ELSE (IF b \in Head(places) THEN 1 ELSE 0)
           + PlacesHolding(b, Tail(places))

\* The places the claim names: dropped at enqueue, buffered, in flight,
\* sent, lost by a failed send.
NamedPlaces ==
    << rejected, Range(message_queue), Range(bytes), HandedWith(TRUE),
       HandedWith(FALSE) >>

NoDuplicates ==
    /\ Len(message_queue) = Cardinality(Range(message_queue))
    /\ Len(handed) = Cardinality(HandedWith(TRUE) \cup HandedWith(FALSE))

\* C24 as stated: every submitted payload is in exactly one of the five
\* named places.
ConservedInFivePlaces ==
    /\ NoDuplicates
    /\ \A b \in Submitted : PlacesHolding(b, NamedPlaces) = 1

\* C24 as amended: every submitted payload is in exactly one of the five
\* places or was dropped with the receiver when the background task was
\* dropped, and no place holds anything that was not submitted.
ConservedInSixPlaces ==
    /\ NoDuplicates
    /\ \A b \in Submitted :
           PlacesHolding(b, NamedPlaces \o << discarded >>) = 1
    /\ \A i \in 1..5 : NamedPlaces[i] \subseteq Submitted
    /\ discarded \subseteq Submitted
    /\ pc # "gone" => discarded = {}

\* In the backoff sleep a payload is buffered, one was sent and one was
\* lost by a failed send.
BufferedDuringBackoff ==
    /\ pc = "sleep"
    /\ message_queue # << >>
    /\ HandedWith(TRUE) # {}
    /\ HandedWith(FALSE) # {}

\* UdpSocket::bind fails and handle_udp_connection returns.
BindFailureStep == pc = "bind" /\ pc' = "for"

\* C25: a failed bind dequeues nothing and leaves the mailbox as it is;
\* the loop goes on to the next address, or to the sleep when none is
\* left.
FailedBindConsumesNothing ==
    [][/\ BindFailureStep
          => /\ IsPrefix(message_queue, message_queue')
             /\ bytes' = NoBytes
             /\ handed' = handed
             /\ udp_socket' = None
             /\ addrs' = addrs
       /\ (pc = "for" /\ pc' \notin {"for", "gone"})
          => pc' = IF addrs # << >> THEN "bind" ELSE "sleep"]_vars

\* A bind has just failed with two payloads buffered and an address left.
BindFailedWithBuffered ==
    /\ pc = "for"
    /\ ends = << "bind" >>
    /\ addrs # << >>
    /\ Len(message_queue) >= 2

\* C26: a lookup is made at the start and after exactly one sleep since
\* the previous lookup; the loop body is always left for the sleep; and
\* during the sleep nothing is dequeued.
OneSleepPerPass ==
    /\ pc = "lookup" =>
           slept = IF last_lookup[2] = "none" THEN 0 ELSE 1
    /\ pc \in {"for", "bind", "next", "send", "sleep"} => slept = 0
    /\ pc = "sleep" =>
           /\ bytes = NoBytes
           /\ udp_socket = None
           /\ addrs = << >>

\* A pass in which a payload was sent has ended and slept once.
SleptAfterSendingPass ==
    /\ pc = "lookup"
    /\ slept = 1
    /\ last_lookup[2] = "ok"
    /\ handed # << >>
    /\ handed[Len(handed)].ok

AllPayloads == { Buf(p, k) : p \in Producers, k \in 1..MaxWrites }

ClosingDiscardsNothing ==
    [][/\ (holders # {} /\ holders' = {})
          => (message_queue' = message_queue /\ bytes' = bytes)
       /\ (~next_done /\ next_done')
          => (message_queue = << >> /\ bytes = NoBytes
              /\ message_queue' = << >>)]_vars

\* Every handle is dropped, and what was written was sent, in order,
\* before the end of the stream was seen.
DrainedThenEnded ==
    /\ holders = {}
    /\ next_done
    /\ Len(handed) = 3
    /\ \A i \in 1..Len(handed) : handed[i].ok
    /\ \A i \in 1..Len(handed) : handed[i].bytes = Buf(1, i)

====
